---- MODULE Spec2Model ----
(***************************************************************************)
(* serial-term-rpc: the serial session (src/src/lib.rs, SerialPort), the   *)
(* RPC handlers that share it behind Arc<Mutex<..>> (src/src/bin/server.rs)*)
(* and the hex-escape codec parse_str_to_serial (src/src/lib.rs).          *)
(*                                                                         *)
(* Text is a sequence of Unicode scalar values (Rust char as u32), bytes   *)
(* are 0..255.  A String's bytes are its UTF-8 encoding (Utf8Bytes).       *)
(***************************************************************************)
EXTENDS Integers, Sequences, FiniteSets, TLC

VARIABLES
    port,       \* SerialPort.port: NoPort (None) or the stored handle (Some)
    live,       \* handles the OS currently holds open (acquired, not dropped)
    mutex,      \* owner of the Mutex<SerialPort>: a caller, or Unlocked
    pc,         \* per caller: position in its RPC handler
    req,        \* per caller: the request being served
    entry,      \* per caller: value of self.port when the SerialPort method began
    calls,      \* per caller: blocking device calls made for the current request
    dres,       \* per caller: what the device call returned
    output,     \* per caller: send_once's local `output` (bytes handed to write)
    resp,       \* per caller: the SerialPortResponse built by the method
    last,       \* the operation that returned most recently: kind and outcome
    s,          \* codec: the argument of parse_str_to_serial
    parsed_s,   \* codec: its result
    cpc,        \* codec: "start" before the call, "loop" in the while, "done" after
    win,        \* codec: start of the next window hex_windows_it yields (1-based)
    avail,      \* listing: what serialport::available_ports() returned
    list_reply, \* listing: the reply of get_port_list
    lpc         \* listing: position in the get_port_list handler

vars == <<port, live, mutex, pc, req, entry, calls, dres, output, resp, last,
          s, parsed_s, cpc, win, avail, list_reply, lpc>>

sessionVars == <<port, live, mutex, pc, req, entry, calls, dres, output, resp, last>>
codecVars == <<s, parsed_s, cpc, win>>
listVars == <<avail, list_reply, lpc>>

----------------------------------------------------------------------------
(* Bounds of the model *)

NumCallers == 2
MaxHandles == 2
MaxLen == 4

(* Program constants *)

SERIAL_READ_BUFFER_SIZE == 32
CHAR_0_AS_U32 == 48
CHAR_9_AS_U32 == 57
CHAR_A_AS_U32 == 65
CHAR_F_AS_U32 == 70

----------------------------------------------------------------------------
(* UTF-8: String::as_bytes / str::len *)

Utf8Bytes(c) ==
    IF c < 128 THEN <<c>>
    ELSE IF c < 2048 THEN <<192 + (c \div 64), 128 + (c % 64)>>
    ELSE IF c < 65536 THEN
        <<224 + (c \div 4096), 128 + ((c \div 64) % 64), 128 + (c % 64)>>
    ELSE <<240 + (c \div 262144), 128 + ((c \div 4096) % 64),
           128 + ((c \div 64) % 64), 128 + (c % 64)>>

RECURSIVE as_bytes(_)
as_bytes(str) ==
    IF str = <<>> THEN <<>> ELSE Utf8Bytes(Head(str)) \o as_bytes(Tail(str))

str_len(str) == Len(as_bytes(str))

(* char::from_u32: None for surrogates and values above 0x10FFFF *)
char_from_u32(n) ==
    IF (n >= 55296 /\ n <= 57343) \/ n > 1114111
    THEN [some |-> FALSE, c |-> 0]
    ELSE [some |-> TRUE, c |-> n]

----------------------------------------------------------------------------
(* parse_str_to_serial *)

(* The digit branches of one window: the value added to hex_int and whether
   is_hex survives. `shift` is 16 for hex_word[2] (<< 4) and 1 for hex_word[3]. *)
HexDigitPart(hex_word_n, shift) ==
    IF hex_word_n >= CHAR_0_AS_U32 /\ hex_word_n <= CHAR_9_AS_U32
    THEN [ok |-> TRUE, add |-> (hex_word_n - CHAR_0_AS_U32) * shift]
    ELSE IF hex_word_n >= CHAR_A_AS_U32 /\ hex_word_n <= CHAR_F_AS_U32
    THEN [ok |-> TRUE, add |-> (hex_word_n - CHAR_A_AS_U32) * shift]
    ELSE [ok |-> FALSE, add |-> 0]

(* One iteration of the while loop on the 4-char window: is_hex and hex_c. *)
HexWindow(hex_word) ==
    IF hex_word[1] = 48 /\ (hex_word[2] = 88 \/ hex_word[2] = 120)
    THEN LET d2 == HexDigitPart(hex_word[3], 16)
             d3 == HexDigitPart(hex_word[4], 1)
             hex_int == d2.add + d3.add   \* at most 15 * 16 + 15: no u32 wrap
             ch == char_from_u32(hex_int)
         IN  [is_hex |-> d2.ok /\ d3.ok /\ ch.some, hex_c |-> ch.c]
    ELSE [is_hex |-> FALSE, hex_c |-> 48]

(* The loop over vec_s.windows(4): i is the (1-based) start of the next window
   the iterator yields; after a match nth(2) discards the three windows that
   follow, so the next one starts at i + 4. *)
RECURSIVE ScanWindows(_, _, _)
ScanWindows(vec_s, i, acc) ==
    IF i + 3 > Len(vec_s) THEN acc
    ELSE LET hex_word == SubSeq(vec_s, i, i + 3)
             w == HexWindow(hex_word)
         IN  IF w.is_hex
             THEN ScanWindows(vec_s, i + 4, Append(acc, w.hex_c))
             ELSE ScanWindows(vec_s, i + 1, Append(acc, hex_word[1]))

parse_str_to_serial(str) ==
    IF str_len(str) < 4 THEN str ELSE ScanWindows(str, 1, <<>>)

----------------------------------------------------------------------------
(* String::from_utf8_lossy: every maximal invalid part becomes U+FFFD *)

IsCont(b) == b >= 128 /\ b <= 191

RECURSIVE from_utf8_lossy(_)
from_utf8_lossy(v) ==
    IF v = <<>> THEN <<>>
    ELSE
      LET n == Len(v)
          b0 == v[1]
          need == IF b0 < 128 THEN 1
                  ELSE IF b0 >= 194 /\ b0 <= 223 THEN 2
                  ELSE IF b0 >= 224 /\ b0 <= 239 THEN 3
                  ELSE IF b0 >= 240 /\ b0 <= 244 THEN 4
                  ELSE 0
          lo2 == IF b0 = 224 THEN 160 ELSE IF b0 = 240 THEN 144 ELSE 128
          hi2 == IF b0 = 237 THEN 159 ELSE IF b0 = 244 THEN 143 ELSE 191
          ok2 == n >= 2 /\ v[2] >= lo2 /\ v[2] <= hi2
          ok3 == ok2 /\ n >= 3 /\ IsCont(v[3])
          ok4 == ok3 /\ n >= 4 /\ IsCont(v[4])
          rest(k) == from_utf8_lossy(SubSeq(v, k + 1, n))
      IN  IF need = 1 THEN <<b0>> \o rest(1)
          ELSE IF need = 2 /\ ok2
          THEN <<(b0 - 192) * 64 + (v[2] - 128)>> \o rest(2)
          ELSE IF need = 3 /\ ok3
          THEN <<(b0 - 224) * 4096 + (v[2] - 128) * 64 + (v[3] - 128)>> \o rest(3)
          ELSE IF need = 4 /\ ok4
          THEN <<(b0 - 240) * 262144 + (v[2] - 128) * 4096
                  + (v[3] - 128) * 64 + (v[4] - 128)>> \o rest(4)
          ELSE IF need = 4 /\ ok3 THEN <<65533>> \o rest(3)
          ELSE IF need >= 3 /\ ok2 THEN <<65533>> \o rest(2)
          ELSE <<65533>> \o rest(1)

----------------------------------------------------------------------------
(* The session and its callers *)

Callers == 1 .. NumCallers
Unlocked == 0
HandleIds == 1 .. MaxHandles

(* The (port, baudrate) pairs a caller asks to open *)
OpenArgs == { <<"/dev/ttyUSB0", 9600>>, <<"/dev/ttyACM0", 115200>> }

(* Texts a caller sends: "0x41", "0x80", "0X4A", "ok0x41" *)
SendTexts ==
    { <<48, 120, 52, 49>>, <<48, 120, 56, 48>>, <<48, 88, 52, 65>>,
      <<111, 107, 48, 120, 52, 49>> }

(* Bytes a device may have pending for a read: nothing, "OK", one invalid
   byte, the two bytes of U+00E9, and one byte more than the read buffer holds *)
ReadData ==
    { <<>>, <<79, 75>>, <<255>>, <<195, 169>>,
      [i \in 1 .. SERIAL_READ_BUFFER_SIZE + 1 |-> 65] }

(* port.read(buf) on a zeroed buffer of `size` bytes with `pending` bytes
   waiting: the count, and the buffer after the call *)
DeviceRead(pending, size) ==
    LET k == IF Len(pending) < size THEN Len(pending) ELSE size
    IN  [n |-> k, data |-> SubSeq(pending, 1, k) \o [i \in 1 .. size - k |-> 0]]

(* io::ErrorKind of a failed read or write; causes of a failed open *)
IoErrorKinds == {"TimedOut", "BrokenPipe"}
OpenErrors == {"NoDevice", "InvalidInput"}

NoPort == [id |-> 0, path |-> "", baud |-> 0, named |-> FALSE]

NoReq == [kind |-> "none", port |-> "", baudrate |-> 0, content |-> <<>>]
OpenReq(p, b) == [kind |-> "open", port |-> p, baudrate |-> b, content |-> <<>>]
CloseReq == [kind |-> "close", port |-> "", baudrate |-> 0, content |-> <<>>]
SendReq(m) == [kind |-> "send", port |-> "", baudrate |-> 0, content |-> m]
ReadReq == [kind |-> "read", port |-> "", baudrate |-> 0, content |-> <<>>]

Requests ==
    {OpenReq(a[1], a[2]) : a \in OpenArgs} \cup {CloseReq, ReadReq}
    \cup {SendReq(m) : m \in SendTexts}

(* What a device call returned. ok: Ok(..) or Err(..); err: the error;
   n: the count of a read or write; data: the bytes a read stored;
   h: the handle an open returned. *)
NoRes == [ok |-> FALSE, err |-> "", n |-> 0, data |-> <<>>, h |-> NoPort]
ResErr(e) == [ok |-> FALSE, err |-> e, n |-> 0, data |-> <<>>, h |-> NoPort]
ResCount(k, d) == [ok |-> TRUE, err |-> "", n |-> k, data |-> d, h |-> NoPort]
ResHandle(hd) == [ok |-> TRUE, err |-> "", n |-> 0, data |-> <<>>, h |-> hd]

(* SerialPortResponse.content: the format string and what fills its holes.
   fmt "{}" is a content that is the text itself (read_once's success). *)
Msg(f, nm, bd, e, txt) == [fmt |-> f, name |-> nm, baud |-> bd, err |-> e, text |-> txt]
Fixed(f) == Msg(f, "", 0, "", <<>>)

NoResp == [success |-> FALSE, content |-> Fixed("")]
Response(ok, c) == [success |-> ok, content |-> c]

NoLast == [kind |-> "none", success |-> FALSE, fmt |-> "", name |-> ""]

(* serialport::available_ports(): Ok(ports) or Err; nothing before the call *)
NoAvail == [ok |-> FALSE, err |-> "", ports |-> <<>>]
AvailErr(e) == [ok |-> FALSE, err |-> e, ports |-> <<>>]
AvailOk(ps) == [ok |-> TRUE, err |-> "", ports |-> ps]

(* Result<Response<PortListRep>, Status> of get_port_list; nothing before it *)
NoListReply == [ok |-> FALSE, ports |-> <<>>]

----------------------------------------------------------------------------
(* The responses of SerialPort's methods *)

AlreadyOpenResponse == Response(FALSE, Fixed("A port is already open"))
NoPortResponse == Response(FALSE, Fixed("No port is currently open"))

(* port.name() of a handle, with the fallback of open_port and close_port *)
NameOrDefault(hd) == IF hd.named THEN hd.path ELSE "default"

(* OpenResponse as it would be if the failure carried the cause *)
OpenResponse_WithCause(r, baud) ==
    IF r.ok
    THEN Response(TRUE, Msg("Openend port {} with a baudrate of {}",
                            NameOrDefault(r.h), IF baud.ok THEN baud.n ELSE 0,
                            "", <<>>))
    ELSE Response(FALSE, Msg("Could not open the port: {}", "", 0, r.err, <<>>))

(* open_port's match on the result of port_builder.open(); baud is the result
   of port.baud_rate(): Ok(b) as [ok |-> TRUE, n |-> b], or Err *)
OpenResponse(r, baud) ==
    IF r.ok
    THEN Response(TRUE, Msg("Openend port {} with a baudrate of {}",
                            NameOrDefault(r.h), IF baud.ok THEN baud.n ELSE 0,
                            "", <<>>))
    ELSE Response(FALSE, Fixed("Could not open the port"))

CloseResponse(hd) == Response(TRUE, Msg("Port {} closed", NameOrDefault(hd), 0, "", <<>>))

(* send_once's match on the result of port.write(output) *)
WriteResponse(r) ==
    IF r.ok THEN Response(TRUE, Fixed("Request sent"))
    ELSE IF r.err = "TimedOut" THEN Response(FALSE, Fixed("Serial write timed out"))
    ELSE Response(FALSE, Msg("Serial write error: {}", "", 0, r.err, <<>>))

(* ReadResponse as it would be without the TimedOut arm *)
ReadResponse_NoTimeoutCase(r) ==
    IF r.ok
    THEN Response(TRUE, Msg("{}", "", 0, "", from_utf8_lossy(SubSeq(r.data, 1, r.n))))
    ELSE Response(FALSE, Msg("Serial read error: {}", "", 0, r.err, <<>>))

(* ReadResponse as it would be if a timeout answered with the text read so
   far, which is none *)
ReadResponse_TimeoutEmptyText(r) ==
    IF r.ok
    THEN Response(TRUE, Msg("{}", "", 0, "", from_utf8_lossy(SubSeq(r.data, 1, r.n))))
    ELSE IF r.err = "TimedOut" THEN Response(FALSE, Msg("{}", "", 0, "", <<>>))
    ELSE Response(FALSE, Msg("Serial read error: {}", "", 0, r.err, <<>>))

(* ReadResponse as it would be if the whole buffer were decoded *)
ReadResponse_WholeBuffer(r) ==
    IF r.ok
    THEN Response(TRUE, Msg("{}", "", 0, "", from_utf8_lossy(r.data)))
    ELSE IF r.err = "TimedOut" THEN Response(FALSE, Fixed("Serial read timed out"))
    ELSE Response(FALSE, Msg("Serial read error: {}", "", 0, r.err, <<>>))

(* read_once's match on the result of port.read(serial_buf) *)
ReadResponse(r) ==
    IF r.ok
    THEN Response(TRUE, Msg("{}", "", 0, "", from_utf8_lossy(SubSeq(r.data, 1, r.n))))
    ELSE IF r.err = "TimedOut" THEN Response(FALSE, Fixed("Serial read timed out"))
    ELSE Response(FALSE, Msg("Serial read error: {}", "", 0, r.err, <<>>))

----------------------------------------------------------------------------
(* Initial state: main() builds Arc<Mutex<SerialPort::new()>>, no request yet *)

Init ==
    /\ port = NoPort
    /\ live = {}
    /\ mutex = Unlocked
    /\ pc = [t \in Callers |-> "idle"]
    /\ req = [t \in Callers |-> NoReq]
    /\ entry = [t \in Callers |-> NoPort]
    /\ calls = [t \in Callers |-> 0]
    /\ dres = [t \in Callers |-> NoRes]
    /\ output = [t \in Callers |-> <<>>]
    /\ resp = [t \in Callers |-> NoResp]
    /\ last = NoLast
    /\ s = <<>>
    /\ parsed_s = <<>>
    /\ cpc = "idle"
    /\ win = 0
    /\ avail = NoAvail
    /\ list_reply = NoListReply
    /\ lpc = "idle"

(* A request out of rs arrives: the handler runs up to port.lock() *)
CallFrom(t, rs) ==
    /\ pc[t] = "idle"
    /\ \E r \in rs : req' = [req EXCEPT ![t] = r]
    /\ pc' = [pc EXCEPT ![t] = "lock"]
    /\ UNCHANGED <<port, live, mutex, entry, calls, dres, output, resp, last>>
    /\ UNCHANGED <<codecVars, listVars>>

Call(t) == CallFrom(t, Requests)

(* Lock as it would be if the guard were handed out while another is held *)
Lock_NoWait(t) ==
    /\ pc[t] = "lock"
    /\ mutex' = t
    /\ pc' = [pc EXCEPT ![t] = "call"]
    /\ UNCHANGED <<port, live, req, entry, calls, dres, output, resp, last>>
    /\ UNCHANGED <<codecVars, listVars>>

(* port.lock().unwrap() returns the guard: only when no one holds the mutex *)
Lock(t) ==
    /\ pc[t] = "lock"
    /\ mutex = Unlocked
    /\ mutex' = t
    /\ pc' = [pc EXCEPT ![t] = "call"]
    /\ UNCHANGED <<port, live, req, entry, calls, dres, output, resp, last>>
    /\ UNCHANGED <<codecVars, listVars>>

(* OpenEnter as it would be if the guard covered the test of self.port only
   and were dropped before port_builder.open() *)
OpenEnter_ReleasesLock(t) ==
    /\ pc[t] = "call" /\ req[t].kind = "open"
    /\ entry' = [entry EXCEPT ![t] = port]
    /\ IF port # NoPort
       THEN /\ resp' = [resp EXCEPT ![t] = Response(FALSE, Fixed("A port is already open"))]
            /\ pc' = [pc EXCEPT ![t] = "reply"]
            /\ UNCHANGED mutex
       ELSE /\ pc' = [pc EXCEPT ![t] = "dev"]
            /\ mutex' = Unlocked
            /\ UNCHANGED resp
    /\ UNCHANGED <<port, live, req, calls, dres, output, last>>
    /\ UNCHANGED <<codecVars, listVars>>

(* OpenEnter as it would be without the if-let on self.port *)
OpenEnter_Unchecked(t) ==
    /\ pc[t] = "call" /\ req[t].kind = "open"
    /\ entry' = [entry EXCEPT ![t] = port]
    /\ pc' = [pc EXCEPT ![t] = "dev"]
    /\ UNCHANGED <<port, live, mutex, req, calls, dres, output, resp, last>>
    /\ UNCHANGED <<codecVars, listVars>>

(* OpenEnter as it would be if only a second open of the same path were rejected *)
OpenEnter_ReopenOther(t) ==
    /\ pc[t] = "call" /\ req[t].kind = "open"
    /\ entry' = [entry EXCEPT ![t] = port]
    /\ IF port # NoPort /\ port.path = req[t].port
       THEN /\ resp' = [resp EXCEPT ![t] = Response(FALSE, Fixed("A port is already open"))]
            /\ pc' = [pc EXCEPT ![t] = "reply"]
       ELSE /\ pc' = [pc EXCEPT ![t] = "dev"]
            /\ UNCHANGED resp
    /\ UNCHANGED <<port, live, mutex, req, calls, dres, output, last>>
    /\ UNCHANGED <<codecVars, listVars>>

(* open_port up to port_builder.open(): the if-let on self.port *)
OpenEnter(t) ==
    /\ pc[t] = "call" /\ req[t].kind = "open"
    /\ entry' = [entry EXCEPT ![t] = port]
    /\ IF port # NoPort
       THEN /\ resp' = [resp EXCEPT ![t] = AlreadyOpenResponse]
            /\ pc' = [pc EXCEPT ![t] = "reply"]
       ELSE /\ pc' = [pc EXCEPT ![t] = "dev"]
            /\ UNCHANGED resp
    /\ UNCHANGED <<port, live, mutex, req, calls, dres, output, last>>
    /\ UNCHANGED <<codecVars, listVars>>

(* port_builder.open() returns: a handle the OS did not hold, or an error *)
OpenDevice(t) ==
    /\ pc[t] = "dev" /\ req[t].kind = "open"
    /\ calls' = [calls EXCEPT ![t] = @ + 1]
    /\ \/ \E i \in HandleIds \ live, nm \in BOOLEAN :
            /\ dres' = [dres EXCEPT ![t] = ResHandle(
                   [id |-> i, path |-> req[t].port, baud |-> req[t].baudrate,
                    named |-> nm])]
            /\ live' = live \cup {i}
       \/ \E e \in OpenErrors :
            /\ dres' = [dres EXCEPT ![t] = ResErr(e)]
            /\ UNCHANGED live
    /\ pc' = [pc EXCEPT ![t] = "match"]
    /\ UNCHANGED <<port, mutex, req, entry, output, resp, last>>
    /\ UNCHANGED <<codecVars, listVars>>

(* open_port's match: Ok stores the handle (the assignment drops whatever
   self.port held), Err leaves self.port alone *)
OpenStore(t) ==
    /\ pc[t] = "match" /\ req[t].kind = "open"
    /\ \E baud \in {ResCount(dres[t].h.baud, <<>>), ResErr("baud_rate")} :
           resp' = [resp EXCEPT ![t] = OpenResponse(dres[t], baud)]
    /\ IF dres[t].ok
       THEN /\ port' = dres[t].h
            /\ live' = live \ {port.id}
       ELSE UNCHANGED <<port, live>>
    /\ pc' = [pc EXCEPT ![t] = "reply"]
    /\ UNCHANGED <<mutex, req, entry, calls, dres, output, last>>
    /\ UNCHANGED <<codecVars, listVars>>

(* CloseEnter as it would be without the if-let on self.port *)
CloseEnter_Unchecked(t) ==
    /\ pc[t] = "call" /\ req[t].kind = "close"
    /\ entry' = [entry EXCEPT ![t] = port]
    /\ pc' = [pc EXCEPT ![t] = "dev"]
    /\ UNCHANGED <<port, live, mutex, req, calls, dres, output, resp, last>>
    /\ UNCHANGED <<codecVars, listVars>>

(* close_port's if-let on self.port *)
CloseEnter(t) ==
    /\ pc[t] = "call" /\ req[t].kind = "close"
    /\ entry' = [entry EXCEPT ![t] = port]
    /\ IF port # NoPort
       THEN /\ pc' = [pc EXCEPT ![t] = "dev"]
            /\ UNCHANGED resp
       ELSE /\ resp' = [resp EXCEPT ![t] = NoPortResponse]
            /\ pc' = [pc EXCEPT ![t] = "reply"]
    /\ UNCHANGED <<port, live, mutex, req, calls, dres, output, last>>
    /\ UNCHANGED <<codecVars, listVars>>

(* CloseDevice as it would be if a missing name ended close_port before the release *)
CloseDevice_KeepIfUnnamed(t) ==
    /\ pc[t] = "dev" /\ req[t].kind = "close"
    /\ calls' = [calls EXCEPT ![t] = @ + 1]
    /\ resp' = [resp EXCEPT ![t] =
                  Response(TRUE, Msg("Port {} closed", NameOrDefault(port), 0, "", <<>>))]
    /\ IF port.named
       THEN /\ port' = NoPort
            /\ live' = live \ {port.id}
       ELSE UNCHANGED <<port, live>>
    /\ pc' = [pc EXCEPT ![t] = "reply"]
    /\ UNCHANGED <<mutex, req, entry, dres, output, last>>
    /\ UNCHANGED <<codecVars, listVars>>

(* close_port on Some(port): name(), then self.port = None drops the handle *)
CloseDevice(t) ==
    /\ pc[t] = "dev" /\ req[t].kind = "close"
    /\ calls' = [calls EXCEPT ![t] = @ + 1]
    /\ resp' = [resp EXCEPT ![t] = CloseResponse(port)]
    /\ port' = NoPort
    /\ live' = live \ {port.id}
    /\ pc' = [pc EXCEPT ![t] = "reply"]
    /\ UNCHANGED <<mutex, req, entry, dres, output, last>>
    /\ UNCHANGED <<codecVars, listVars>>

(* send_once up to port.write(output): encode, then the if-let on self.port *)
SendEnter(t) ==
    /\ pc[t] = "call" /\ req[t].kind = "send"
    /\ entry' = [entry EXCEPT ![t] = port]
    /\ output' = [output EXCEPT ![t] = as_bytes(parse_str_to_serial(req[t].content))]
    /\ IF port # NoPort
       THEN /\ pc' = [pc EXCEPT ![t] = "dev"]
            /\ UNCHANGED resp
       ELSE /\ resp' = [resp EXCEPT ![t] = NoPortResponse]
            /\ pc' = [pc EXCEPT ![t] = "reply"]
    /\ UNCHANGED <<port, live, mutex, req, calls, dres, last>>
    /\ UNCHANGED <<codecVars, listVars>>

(* SendDevice as it would be if a failed write reset the session *)
SendDevice_ResetOnError(t) ==
    /\ pc[t] = "dev" /\ req[t].kind = "send"
    /\ calls' = [calls EXCEPT ![t] = @ + 1]
    /\ \E r \in {ResCount(k, <<>>) : k \in 0 .. Len(output[t])}
                \cup {ResErr(e) : e \in IoErrorKinds} :
          /\ dres' = [dres EXCEPT ![t] = r]
          /\ resp' = [resp EXCEPT ![t] = WriteResponse(r)]
          /\ IF r.ok THEN UNCHANGED <<port, live>>
             ELSE port' = NoPort /\ live' = live \ {port.id}
    /\ pc' = [pc EXCEPT ![t] = "reply"]
    /\ UNCHANGED <<mutex, req, entry, output, last>>
    /\ UNCHANGED <<codecVars, listVars>>

(* port.write(output) returns a count or an error; the match builds the reply *)
SendDevice(t) ==
    /\ pc[t] = "dev" /\ req[t].kind = "send"
    /\ calls' = [calls EXCEPT ![t] = @ + 1]
    /\ \E r \in {ResCount(k, <<>>) : k \in 0 .. Len(output[t])}
                \cup {ResErr(e) : e \in IoErrorKinds} :
          /\ dres' = [dres EXCEPT ![t] = r]
          /\ resp' = [resp EXCEPT ![t] = WriteResponse(r)]
    /\ pc' = [pc EXCEPT ![t] = "reply"]
    /\ UNCHANGED <<port, live, mutex, req, entry, output, last>>
    /\ UNCHANGED <<codecVars, listVars>>

(* read_once's if-let on self.port *)
ReadEnter(t) ==
    /\ pc[t] = "call" /\ req[t].kind = "read"
    /\ entry' = [entry EXCEPT ![t] = port]
    /\ IF port # NoPort
       THEN /\ pc' = [pc EXCEPT ![t] = "dev"]
            /\ UNCHANGED resp
       ELSE /\ resp' = [resp EXCEPT ![t] = NoPortResponse]
            /\ pc' = [pc EXCEPT ![t] = "reply"]
    /\ UNCHANGED <<port, live, mutex, req, calls, dres, output, last>>
    /\ UNCHANGED <<codecVars, listVars>>

(* port.read(serial_buf) returns a count or an error; the match builds the reply *)
ReadDevice(t) ==
    /\ pc[t] = "dev" /\ req[t].kind = "read"
    /\ calls' = [calls EXCEPT ![t] = @ + 1]
    /\ \E r \in {ResCount(DeviceRead(d, SERIAL_READ_BUFFER_SIZE).n,
                         DeviceRead(d, SERIAL_READ_BUFFER_SIZE).data) : d \in ReadData}
                \cup {ResErr(e) : e \in IoErrorKinds} :
          /\ dres' = [dres EXCEPT ![t] = r]
          /\ resp' = [resp EXCEPT ![t] = ReadResponse(r)]
    /\ pc' = [pc EXCEPT ![t] = "reply"]
    /\ UNCHANGED <<port, live, mutex, req, entry, output, last>>
    /\ UNCHANGED <<codecVars, listVars>>

(* Return as it would be if the guard outlived a failed outcome *)
Return_KeepsLockOnFailure(t) ==
    /\ pc[t] = "reply"
    /\ mutex' = IF resp[t].success THEN Unlocked ELSE mutex
    /\ last' = [kind |-> req[t].kind, success |-> resp[t].success,
                fmt |-> resp[t].content.fmt, name |-> resp[t].content.name]
    /\ pc' = [pc EXCEPT ![t] = "idle"]
    /\ req' = [req EXCEPT ![t] = NoReq]
    /\ entry' = [entry EXCEPT ![t] = NoPort]
    /\ calls' = [calls EXCEPT ![t] = 0]
    /\ dres' = [dres EXCEPT ![t] = NoRes]
    /\ output' = [output EXCEPT ![t] = <<>>]
    /\ resp' = [resp EXCEPT ![t] = NoResp]
    /\ UNCHANGED <<port, live>>
    /\ UNCHANGED <<codecVars, listVars>>

(* The handler builds the reply from resp and returns: the guard is dropped *)
Return(t) ==
    /\ pc[t] = "reply"
    /\ mutex' = Unlocked
    /\ last' = [kind |-> req[t].kind, success |-> resp[t].success,
                fmt |-> resp[t].content.fmt, name |-> resp[t].content.name]
    /\ pc' = [pc EXCEPT ![t] = "idle"]
    /\ req' = [req EXCEPT ![t] = NoReq]
    /\ entry' = [entry EXCEPT ![t] = NoPort]
    /\ calls' = [calls EXCEPT ![t] = 0]
    /\ dres' = [dres EXCEPT ![t] = NoRes]
    /\ output' = [output EXCEPT ![t] = <<>>]
    /\ resp' = [resp EXCEPT ![t] = NoResp]
    /\ UNCHANGED <<port, live>>
    /\ UNCHANGED <<codecVars, listVars>>

Next ==
    \E t \in Callers :
        \/ Call(t)
        \/ Lock(t)
        \/ OpenEnter(t)
        \/ OpenDevice(t)
        \/ OpenStore(t)
        \/ CloseEnter(t)
        \/ CloseDevice(t)
        \/ SendEnter(t)
        \/ SendDevice(t)
        \/ ReadEnter(t)
        \/ ReadDevice(t)
        \/ Return(t)

Spec == Init /\ [][Next]_vars

(* What a caller that holds the guard does next: the method's steps, the
   device call returning, the handler returning *)
Run(t) ==
    \/ OpenEnter(t) \/ OpenDevice(t) \/ OpenStore(t)
    \/ CloseEnter(t) \/ CloseDevice(t)
    \/ SendEnter(t) \/ SendDevice(t)
    \/ ReadEnter(t) \/ ReadDevice(t)
    \/ Return(t)

(* One request of each kind: which port, baud rate or text a request names
   decides no branch of a handler *)
LiveRequests ==
    {OpenReq("/dev/ttyUSB0", 9600), CloseReq, SendReq(<<48, 120, 52, 49>>), ReadReq}

NextLive ==
    \E t \in Callers :
        \/ CallFrom(t, LiveRequests)
        \/ Lock(t)
        \/ Run(t)

(* Scheduling: a handler that can run does run and every device call returns
   (weak fairness of Run); a caller blocked in lock() gets the mutex if it is
   free again and again (strong fairness of Lock). Requests may stop coming. *)
FairSpec ==
    /\ Init
    /\ [][NextLive]_vars
    /\ \A t \in Callers : WF_vars(Run(t)) /\ SF_vars(Lock(t))

----------------------------------------------------------------------------
(* The codec on its own: parse_str_to_serial applied to a bounded input *)

(* '0' '4' '9' 'A' 'F' 'X' 'a' 'i' 'x' and the two-byte U+00E9 *)
Alphabet == {48, 52, 57, 65, 70, 88, 97, 105, 120, 233}

BoundedTexts == UNION {[1 .. n -> Alphabet] : n \in 0 .. MaxLen}

(* The inputs of tests::parse_str_untouched and tests::parse_str_hex:
   "ok", "0x020x23", "0x02iii0x17ii0x03" *)
TestInputs ==
    { <<111, 107>>,
      <<48, 120, 48, 50, 48, 120, 50, 51>>,
      <<48, 120, 48, 50, 105, 105, 105, 48, 120, 49, 55, 105, 105, 48, 120, 48, 51>> }

InitCodec ==
    /\ port = NoPort
    /\ live = {}
    /\ mutex = Unlocked
    /\ pc = [t \in Callers |-> "idle"]
    /\ req = [t \in Callers |-> NoReq]
    /\ entry = [t \in Callers |-> NoPort]
    /\ calls = [t \in Callers |-> 0]
    /\ dres = [t \in Callers |-> NoRes]
    /\ output = [t \in Callers |-> <<>>]
    /\ resp = [t \in Callers |-> NoResp]
    /\ last = NoLast
    /\ s \in BoundedTexts \cup TestInputs
    /\ parsed_s = <<>>
    /\ cpc = "start"
    /\ win = 0
    /\ avail = NoAvail
    /\ list_reply = NoListReply
    /\ lpc = "idle"

Encode ==
    /\ cpc = "start"
    /\ parsed_s' = parse_str_to_serial(s)
    /\ cpc' = "done"
    /\ UNCHANGED <<s, win>>
    /\ UNCHANGED <<sessionVars, listVars>>

NextCodec == Encode

SpecCodec == InitCodec /\ [][NextCodec]_vars

(* parse_str_to_serial step by step: the early return, then one action per
   iteration of the while loop *)

(* The test of s.len() and the set-up of vec_s and hex_windows_it *)
ScanBegin ==
    /\ cpc = "start"
    /\ IF str_len(s) < 4
       THEN /\ parsed_s' = s
            /\ cpc' = "done"
            /\ UNCHANGED win
       ELSE /\ parsed_s' = <<>>
            /\ win' = 1
            /\ cpc' = "loop"
    /\ UNCHANGED s
    /\ UNCHANGED <<sessionVars, listVars>>

(* ScanStep as it would be if a window that does not match were looked at
   without being taken from the iterator *)
ScanStep_NoAdvance ==
    /\ cpc = "loop"
    /\ win + 3 <= Len(s)
    /\ LET hex_word == SubSeq(s, win, win + 3)
           w == HexWindow(hex_word)
       IN  IF w.is_hex
           THEN /\ parsed_s' = Append(parsed_s, w.hex_c)
                /\ win' = win + 4
           ELSE /\ parsed_s' = Append(parsed_s, hex_word[1])
                /\ win' = win
    /\ UNCHANGED <<s, cpc>>
    /\ UNCHANGED <<sessionVars, listVars>>

(* One iteration: hex_windows_it.next() yields the window at win; a match
   pushes hex_c and nth(2) discards three windows, anything else pushes
   hex_word[0] *)
ScanStep ==
    /\ cpc = "loop"
    /\ win + 3 <= Len(s)
    /\ LET hex_word == SubSeq(s, win, win + 3)
           w == HexWindow(hex_word)
       IN  IF w.is_hex
           THEN /\ parsed_s' = Append(parsed_s, w.hex_c)
                /\ win' = win + 4
           ELSE /\ parsed_s' = Append(parsed_s, hex_word[1])
                /\ win' = win + 1
    /\ UNCHANGED <<s, cpc>>
    /\ UNCHANGED <<sessionVars, listVars>>

(* hex_windows_it.next() is None: the loop ends and parsed_s is returned *)
ScanEnd ==
    /\ cpc = "loop"
    /\ win + 3 > Len(s)
    /\ cpc' = "done"
    /\ UNCHANGED <<s, parsed_s, win>>
    /\ UNCHANGED <<sessionVars, listVars>>

NextScan == ScanBegin \/ ScanStep \/ ScanEnd

(* The function runs on: a step that can be taken is taken *)
SpecScan == InitCodec /\ [][NextScan]_vars /\ WF_vars(NextScan)

----------------------------------------------------------------------------
(* Listing the ports: SerialPort::get_available_port_names and get_port_list *)

MaxPorts == 4

DeviceNames == {"/dev/ttyUSB0", "/dev/ttyACM0", "/dev/ttyS0"}

(* Outcomes of serialport::available_ports(): an error, or the SerialPortInfo
   of up to MaxPorts ports in the order of the enumeration *)
Enumerations ==
    {AvailErr(e) : e \in {"NoDevice", "Unknown"}}
    \cup {AvailOk(ps) : ps \in UNION {[1 .. n -> [port_name : DeviceNames]] : n \in 0 .. MaxPorts}}

(* get_available_port_names as it would be without the is_empty test *)
get_available_port_names_NoEmptyTest(r) ==
    IF ~r.ok THEN <<"No ports available">>
    ELSE [k \in 1 .. Len(r.ports) |-> r.ports[k].port_name]

(* get_available_port_names, given what available_ports() returned *)
get_available_port_names(r) ==
    IF ~r.ok THEN <<"No ports available">>
    ELSE IF r.ports = <<>> THEN <<"No ports available">>
    ELSE [k \in 1 .. Len(r.ports) |-> r.ports[k].port_name]

InitList ==
    /\ port = NoPort
    /\ live = {}
    /\ mutex = Unlocked
    /\ pc = [t \in Callers |-> "idle"]
    /\ req = [t \in Callers |-> NoReq]
    /\ entry = [t \in Callers |-> NoPort]
    /\ calls = [t \in Callers |-> 0]
    /\ dres = [t \in Callers |-> NoRes]
    /\ output = [t \in Callers |-> <<>>]
    /\ resp = [t \in Callers |-> NoResp]
    /\ last = NoLast
    /\ s = <<>>
    /\ parsed_s = <<>>
    /\ cpc = "idle"
    /\ win = 0
    /\ avail = NoAvail
    /\ list_reply = NoListReply
    /\ lpc = "idle"

(* A GetPortList request arrives; the handler takes no lock *)
ListCall ==
    /\ lpc = "idle"
    /\ lpc' = "enumerate"
    /\ avail' = NoAvail
    /\ list_reply' = NoListReply
    /\ UNCHANGED <<sessionVars, codecVars>>

(* serialport::available_ports() returns *)
ListEnumerate ==
    /\ lpc = "enumerate"
    /\ avail' \in Enumerations
    /\ lpc' = "reply"
    /\ UNCHANGED list_reply
    /\ UNCHANGED <<sessionVars, codecVars>>

(* get_available_port_names builds the names; the handler returns
   Ok(Response::new(PortListRep { ports: port_names })) *)
ListReply ==
    /\ lpc = "reply"
    /\ list_reply' = [ok |-> TRUE, ports |-> get_available_port_names(avail)]
    /\ lpc' = "idle"
    /\ UNCHANGED avail
    /\ UNCHANGED <<sessionVars, codecVars>>

NextList == ListCall \/ ListEnumerate \/ ListReply

SpecList == InitList /\ [][NextList]_vars

----------------------------------------------------------------------------
(* Properties of the session *)

InHandler == {"call", "dev", "match", "reply"}
Rejected(f) == f = "No port is currently open" \/ f = "A port is already open"
OwnedBy(p) == IF p = NoPort THEN {} ELSE {p.id}

(* C1: the session owns at most one live device handle. The OS never holds
   two handles; port_builder.open() is only in flight while self.port is
   None and nothing is held; a handle just acquired is the only one, and
   outside that window the live handles are exactly the stored one. *)
C1_OneLiveHandle ==
    /\ Cardinality(live) <= 1
    /\ \A t \in Callers :
          /\ (pc[t] = "dev" /\ req[t].kind = "open") => (port = NoPort /\ live = {})
          /\ (pc[t] = "match" /\ dres[t].ok) => (port = NoPort /\ live = {dres[t].h.id})
    /\ (\A t \in Callers : ~(pc[t] = "match" /\ dres[t].ok)) => live = OwnedBy(port)

(* Opens raced: one returned with the handle, another has been rejected while
   a further request waits for the lock. *)
C1_Witness ==
    \E t, u \in Callers :
        /\ t # u
        /\ port # NoPort /\ live = {port.id}
        /\ last.kind = "open" /\ last.success
        /\ pc[t] = "reply" /\ req[t].kind = "open" /\ ~resp[t].success
        /\ pc[u] = "lock"

(* C2: at most one operation runs against the session. A handler that has
   passed port.lock() and not yet returned holds the mutex, from before it
   inspects self.port until its outcome is built, so at most one caller is
   anywhere in a SerialPort method and at most one device call is in flight. *)
C2_Serialized ==
    /\ \A t \in Callers : pc[t] \in InHandler => mutex = t
    /\ Cardinality({t \in Callers : pc[t] \in InHandler}) <= 1
    /\ \A t \in Callers : pc[t] \notin InHandler => (resp[t] = NoResp /\ calls[t] = 0)

(* A device call is in flight while another caller is blocked on the lock. *)
C2_Witness ==
    \E t, u \in Callers :
        /\ t # u
        /\ pc[t] = "dev" /\ mutex = t
        /\ pc[u] = "lock" /\ req[u].kind # "none"

(* C3: open on an Open session is rejected with "A port is already open",
   makes no device call and leaves the stored handle as it was, whatever the
   arguments. *)
C3_OpenWhileOpen ==
    \A t \in Callers :
        req[t].kind = "open" =>
            /\ (pc[t] \in {"dev", "match"}) => entry[t] = NoPort
            /\ (pc[t] = "reply" /\ entry[t] # NoPort) =>
                  /\ resp[t] = Response(FALSE, Fixed("A port is already open"))
                  /\ calls[t] = 0
                  /\ port = entry[t]
                  /\ live = {entry[t].id}

(* The rejected open asked for the very path and baud rate that is open. *)
C3_Witness ==
    \E t \in Callers :
        /\ pc[t] = "reply" /\ req[t].kind = "open"
        /\ entry[t] # NoPort
        /\ req[t].port = port.path /\ req[t].baudrate = port.baud
        /\ ~resp[t].success

(* C4: on a Closed session close, send and receive answer success=false with
   "No port is currently open", make no device call and leave it Closed. *)
C4_ClosedRejects ==
    \A t \in Callers :
        req[t].kind \in {"close", "send", "read"} =>
            /\ pc[t] = "dev" => entry[t] # NoPort
            /\ (pc[t] = "reply" /\ entry[t] = NoPort) =>
                  /\ resp[t] = Response(FALSE, Fixed("No port is currently open"))
                  /\ calls[t] = 0
                  /\ port = NoPort
                  /\ live = {}

(* A close is rejected on the session as constructed (nothing has returned
   yet), while another caller waits to send. *)
C4_Witness ==
    \E t, u \in Callers :
        /\ last = NoLast
        /\ pc[t] = "reply" /\ req[t].kind = "close" /\ ~resp[t].success
        /\ pc[u] = "lock" /\ req[u].kind = "send"

(* C5: send and receive never change the session. While one is at its device
   call or has its outcome, self.port is what it was on entry and the OS holds
   exactly that handle; and after a send/receive that reached the device
   (whatever it returned) the next send/receive reaches the device too. *)
C5_SendReadKeepSession ==
    \A t \in Callers :
        req[t].kind \in {"send", "read"} =>
            /\ pc[t] \in {"dev", "reply"} => (port = entry[t] /\ live = OwnedBy(port))
            /\ (pc[t] = "reply" /\ last.kind \in {"send", "read"} /\ ~Rejected(last.fmt)) =>
                  (calls[t] = 1 /\ port # NoPort /\ ~Rejected(resp[t].content.fmt))

(* A read succeeds right after a write that timed out. *)
C5_Witness ==
    \E t \in Callers :
        /\ last.kind = "send" /\ last.fmt = "Serial write timed out"
        /\ pc[t] = "reply" /\ req[t].kind = "read" /\ resp[t].success
        /\ port = entry[t] /\ port # NoPort

(* C6: close on an Open session succeeds, names the port (or "default"),
   releases the handle and leaves the session Closed; the operation right
   after it is rejected if it is a send, receive or close, and goes to the
   device if it is an open. *)
C6_CloseReleases ==
    \A t \in Callers :
        /\ (pc[t] = "reply" /\ req[t].kind = "close" /\ entry[t] # NoPort) =>
              /\ resp[t] = Response(TRUE,
                     Msg("Port {} closed",
                         IF entry[t].named THEN entry[t].path ELSE "default",
                         0, "", <<>>))
              /\ port = NoPort
              /\ live = {}
        /\ (pc[t] = "reply" /\ last.kind = "close" /\ last.success) =>
              /\ req[t].kind \in {"send", "read", "close"} =>
                    (resp[t] = Response(FALSE, Fixed("No port is currently open"))
                     /\ calls[t] = 0)
              /\ req[t].kind = "open" => (entry[t] = NoPort /\ calls[t] = 1)

(* A port whose name was unavailable has been closed, and the open that
   follows acquires a device again. *)
C6_Witness ==
    \E t \in Callers :
        /\ last.kind = "close" /\ last.success /\ last.name = "default"
        /\ pc[t] = "reply" /\ req[t].kind = "open"
        /\ entry[t] = NoPort /\ resp[t].success
        /\ port # NoPort /\ live = {port.id}

(* C7: open from Closed makes one acquisition; it stores the handle and
   succeeds exactly when the acquisition succeeded; a failed acquisition gives
   the fixed "Could not open the port" and leaves the session Closed. *)
C7_OpenFromClosed ==
    \A t \in Callers :
        (pc[t] = "reply" /\ req[t].kind = "open" /\ entry[t] = NoPort) =>
            /\ calls[t] = 1
            /\ resp[t].success <=> dres[t].ok
            /\ dres[t].ok =>
                  /\ port = dres[t].h
                  /\ port # NoPort
                  /\ port.path = req[t].port
                  /\ live = {port.id}
                  /\ resp[t].content.fmt = "Openend port {} with a baudrate of {}"
            /\ ~dres[t].ok =>
                  /\ resp[t] = Response(FALSE, Fixed("Could not open the port"))
                  /\ port = NoPort
                  /\ live = {}

(* An open succeeds right after an open whose acquisition failed. *)
C7_Witness ==
    \E t \in Callers :
        /\ last.kind = "open" /\ last.fmt = "Could not open the port"
        /\ pc[t] = "reply" /\ req[t].kind = "open"
        /\ resp[t].success /\ port = dres[t].h /\ port # NoPort

(* C8: on an Open session send and receive make exactly one device call and
   their outcome is its result: Ok gives success, TimedOut the fixed timeout
   message, any other error success=false with the error's text. *)
C8_ThreeWay ==
    \A t \in Callers :
        (pc[t] = "reply" /\ req[t].kind \in {"send", "read"} /\ entry[t] # NoPort) =>
            LET w == req[t].kind = "send"
                r == dres[t]
                c == resp[t].content
            IN  /\ calls[t] = 1
                /\ r.ok =>
                      /\ resp[t].success
                      /\ w => c = Fixed("Request sent")
                /\ (~r.ok /\ r.err = "TimedOut") =>
                      resp[t] = Response(FALSE,
                          Fixed(IF w THEN "Serial write timed out"
                                     ELSE "Serial read timed out"))
                /\ (~r.ok /\ r.err # "TimedOut") =>
                      /\ ~resp[t].success
                      /\ c.fmt = (IF w THEN "Serial write error: {}"
                                       ELSE "Serial read error: {}")
                      /\ c.err = r.err /\ c.err # ""

(* A write fails with an error other than a timeout, right after a read that
   timed out. *)
C8_Witness ==
    \E t \in Callers :
        /\ last.kind = "read" /\ last.fmt = "Serial read timed out"
        /\ pc[t] = "reply" /\ req[t].kind = "send"
        /\ dres[t] = ResErr("BrokenPipe")
        /\ resp[t].content.err = "BrokenPipe"

(* The string a content stands for is empty: no format at all, or the bare
   "{}" of an empty text. Every other format has literal characters. *)
RendersEmpty(c) == c.fmt = "" \/ (c.fmt = "{}" /\ c.text = <<>>)

(* C15: every outcome of open, close, send or receive with success=false
   carries a non-empty message, in every state and for every device result. *)
C15_FailureHasMessage ==
    \A t \in Callers :
        (pc[t] = "reply" /\ ~resp[t].success) => ~RendersEmpty(resp[t].content)

(* An open fails at the device right after a close was rejected. *)
C15_Witness ==
    \E t \in Callers :
        /\ last.kind = "close" /\ ~last.success
        /\ pc[t] = "reply" /\ req[t].kind = "open"
        /\ ~resp[t].success /\ ~dres[t].ok /\ calls[t] = 1
        /\ resp[t].content.fmt = "Could not open the port"

(* C16: with every device call returning and the lock granted fairly, the
   handler of every request issued by any caller eventually returns; it only
   ever returns with its outcome built, and returning releases the lock on
   every path, so no caller waits for the lock for ever. *)
C16_EveryRequestAnswered ==
    /\ \A t \in Callers : (pc[t] # "idle") ~> (pc[t] = "idle" /\ mutex # t)
    /\ [][\A t \in Callers :
            (pc[t] # "idle" /\ pc'[t] = "idle") =>
                (pc[t] = "reply" /\ resp[t] # NoResp /\ mutex' = Unlocked)]_vars

(* A caller is blocked on the lock while the holder has built the outcome of
   a device call that timed out. *)
C16_Witness ==
    \E t, u \in Callers :
        /\ t # u
        /\ pc[u] = "lock"
        /\ mutex = t /\ pc[t] = "reply"
        /\ ~dres[t].ok /\ dres[t].err = "TimedOut" /\ ~resp[t].success

(* The state the operations that have returned, taken one after another in
   the order of their returns, leave the session in: Open or not. Each
   outcome fixes it: a successful or an "already open" open leaves it Open, a
   failed open and every close leave it Closed, a send or receive leaves it
   as it found it, Closed exactly when it was rejected. *)
OpenAfterLast ==
    IF last.kind = "open"
    THEN last.success \/ last.fmt = "A port is already open"
    ELSE IF last.kind \in {"send", "read"}
    THEN last.fmt # "No port is currently open"
    ELSE FALSE

(* C17: operations are atomic. The outcome a handler has built is the one the
   operation has when run on its own after the operations that returned
   before it: from Open an open is rejected, a close succeeds and a send or
   receive reaches the device; from Closed an open succeeds exactly when its
   acquisition does and the others are rejected. So of racing opens only one
   succeeds, the others get "A port is already open", and of racing closes
   only one succeeds. *)
C17_Atomic ==
    \A t \in Callers :
        pc[t] = "reply" =>
            /\ (req[t].kind = "open" /\ OpenAfterLast) =>
                  (resp[t] = Response(FALSE, Fixed("A port is already open"))
                   /\ calls[t] = 0)
            /\ (req[t].kind = "open" /\ ~OpenAfterLast) =>
                  /\ calls[t] = 1
                  /\ resp[t].success <=> dres[t].ok
                  /\ ~resp[t].success => resp[t].content.fmt = "Could not open the port"
            /\ req[t].kind = "close" =>
                  /\ resp[t].success <=> OpenAfterLast
                  /\ ~resp[t].success =>
                        resp[t] = Response(FALSE, Fixed("No port is currently open"))
            /\ req[t].kind \in {"send", "read"} =>
                  /\ OpenAfterLast =>
                        (calls[t] = 1 /\ ~Rejected(resp[t].content.fmt)
                         /\ (resp[t].success <=> dres[t].ok))
                  /\ ~OpenAfterLast =>
                        resp[t] = Response(FALSE, Fixed("No port is currently open"))

(* Closes raced on an Open session: one has returned success, the next is
   rejected, and a further close waits for the lock. *)
C17_Witness ==
    \E t, u \in Callers :
        /\ t # u
        /\ last.kind = "close" /\ last.success
        /\ pc[t] = "reply" /\ req[t].kind = "close" /\ ~resp[t].success
        /\ pc[u] = "lock" /\ req[u].kind = "close"

(* C18: send answers success=true only when the device took every byte of
   the encoded payload: a write that returns a count below the payload length
   is not reported as "Request sent". *)
C18_FullWriteOnly ==
    \A t \in Callers :
        (pc[t] = "reply" /\ req[t].kind = "send" /\ resp[t].success) =>
            (dres[t].ok /\ dres[t].n = Len(output[t]))

IsAscii(bytes) == \A k \in 1 .. Len(bytes) : bytes[k] < 128

(* C19: receive on an Open session makes one device read into a buffer of 32
   bytes; when the read returns the count n (0 <= n <= 32) the outcome is
   success with the text decoded from the first n bytes alone: no more
   characters than n, the empty text for n = 0, the bytes themselves when
   they are all ASCII, and a text whose UTF-8 bytes are the bytes read
   whenever nothing had to be replaced. *)
C19_ReadFirstBytes ==
    \A t \in Callers :
        (pc[t] = "reply" /\ req[t].kind = "read" /\ entry[t] # NoPort /\ dres[t].ok) =>
            LET n == dres[t].n
                got == SubSeq(dres[t].data, 1, n)
                text == resp[t].content.text
            IN  /\ calls[t] = 1
                /\ Len(dres[t].data) = SERIAL_READ_BUFFER_SIZE
                /\ n >= 0 /\ n <= SERIAL_READ_BUFFER_SIZE
                /\ resp[t].success /\ resp[t].content.fmt = "{}"
                /\ Len(text) <= n
                /\ n = 0 => text = <<>>
                /\ IsAscii(got) => text = got
                /\ (\A k \in 1 .. Len(text) : text[k] # 65533) => as_bytes(text) = got

(* A read that found nothing gives success with an empty message, right after
   a read that filled the whole buffer. *)
C19_Witness ==
    \E t \in Callers :
        /\ last.kind = "read" /\ last.success
        /\ pc[t] = "reply" /\ req[t].kind = "read"
        /\ dres[t].ok /\ dres[t].n = 0
        /\ resp[t] = Response(TRUE, Msg("{}", "", 0, "", <<>>))

----------------------------------------------------------------------------
(* Properties of the codec *)

IsHexDigit(c) == (c >= 48 /\ c <= 57) \/ (c >= 65 /\ c <= 70)

(* The value of a hex digit: '0'-'9' are 0..9, 'A'-'F' are 10..15 *)
HexValue(c) == IF c <= 57 THEN c - 48 ELSE c - 65 + 10

(* The pattern '0', 'x' or 'X', hex digit, hex digit at position i of txt *)
EscapeAt(txt, i) ==
    /\ i + 3 <= Len(txt)
    /\ txt[i] = 48
    /\ txt[i + 1] \in {88, 120}
    /\ IsHexDigit(txt[i + 2]) /\ IsHexDigit(txt[i + 3])

EscapeValue(txt, i) == 16 * HexValue(txt[i + 2]) + HexValue(txt[i + 3])

(* The left-to-right scan from position i ends on an escape: its last step
   consumes the last four characters of txt. *)
RECURSIVE EndsWithEscape(_, _)
EndsWithEscape(txt, i) ==
    IF i + 3 > Len(txt) THEN FALSE
    ELSE IF EscapeAt(txt, i)
    THEN i + 3 = Len(txt) \/ EndsWithEscape(txt, i + 4)
    ELSE EndsWithEscape(txt, i + 1)

(* What the scan is to produce from position i: one character of code
   16 * value(d1) + value(d2) per escape, every other character as it is. *)
RECURSIVE Decoded(_, _)
Decoded(txt, i) ==
    IF i > Len(txt) THEN <<>>
    ELSE IF EscapeAt(txt, i)
    THEN <<EscapeValue(txt, i)>> \o Decoded(txt, i + 4)
    ELSE <<txt[i]>> \o Decoded(txt, i + 1)

(* The bytes the device is to be handed: one byte of value HH per escape,
   the UTF-8 bytes of every other character. *)
RECURSIVE DecodedBytes(_, _)
DecodedBytes(txt, i) ==
    IF i > Len(txt) THEN <<>>
    ELSE IF EscapeAt(txt, i)
    THEN <<EscapeValue(txt, i)>> \o DecodedBytes(txt, i + 4)
    ELSE Utf8Bytes(txt[i]) \o DecodedBytes(txt, i + 1)

(* C9: for a send on an Open session whose text ends on an escape, the bytes
   handed to the device write hold exactly one byte per escape 0xHH, of value
   HH, for every value 0x00..0xFF. *)
C9_EscapeIsOneByte ==
    \A t \in Callers :
        (pc[t] \in {"dev", "reply"} /\ req[t].kind = "send" /\ entry[t] # NoPort
         /\ EndsWithEscape(req[t].content, 1)) =>
            output[t] = DecodedBytes(req[t].content, 1)

(* C10: every matched escape window is replaced by the one character of code
   16 * value(d1) + value(d2), A-F counting 10..15, and the scan resumes four
   characters on: an input that ends with an escape yields the decoded
   characters with the literal runs untouched. *)
C10_EscapeDecoded ==
    (cpc = "done" /\ EndsWithEscape(s, 1)) => parsed_s = Decoded(s, 1)

(* The scan's view of txt from position i: every character that belongs to
   no matched escape as it is, and -1 in place of each escape. *)
RECURSIVE LiteralMask(_, _)
LiteralMask(txt, i) ==
    IF i > Len(txt) THEN <<>>
    ELSE IF EscapeAt(txt, i)
    THEN <<-1>> \o LiteralMask(txt, i + 4)
    ELSE <<txt[i]>> \o LiteralMask(txt, i + 1)

HasEscape(txt) == \E i \in 1 .. Len(txt) : EscapeAt(txt, i)

(* C11: for an input of 4 or more characters, every character outside a
   matched escape is copied to the output verbatim and in order, the last three
   positions included; an input with no escape pattern comes back unchanged. *)
C11_LiteralsCopied ==
    (cpc = "done" /\ Len(s) >= 4) =>
        LET m == LiteralMask(s, 1)
        IN  /\ Len(parsed_s) = Len(m)
            /\ \A k \in 1 .. Len(m) : m[k] # -1 => parsed_s[k] = m[k]
            /\ ~HasEscape(s) => parsed_s = s

(* C12: an input shorter than 4 characters is returned unchanged, whatever
   its characters are. *)
C12_ShortIdentity ==
    (cpc = "done" /\ Len(s) < 4) => parsed_s = s

(* C13: a window '0', 'x' or 'X' followed by two characters that are not both
   hex digits (0-9, A-F) is no escape, and its characters are copied through:
   an input that starts with such a window and holds no escape comes back as
   it is, e.g. "0x0a". *)
C13_LowerCaseLiteral ==
    (cpc = "done" /\ Len(s) >= 4 /\ s[1] = 48 /\ s[2] \in {88, 120}
     /\ ~(IsHexDigit(s[3]) /\ IsHexDigit(s[4])) /\ ~HasEscape(s)) =>
        parsed_s = s

----------------------------------------------------------------------------
(* Properties of the listing *)

Replied == lpc = "idle" /\ list_reply # NoListReply

(* C14: list_ports never returns an empty sequence and never signals a
   failure: a failed or empty enumeration gives exactly the one sentinel
   element, any other gives the discovered names in enumeration order, as many
   as were enumerated. *)
C14_ListNeverEmpty ==
    Replied =>
        /\ list_reply.ok
        /\ Len(list_reply.ports) >= 1
        /\ (~avail.ok \/ Len(avail.ports) = 0) =>
              list_reply.ports = <<"No ports available">>
        /\ (avail.ok /\ Len(avail.ports) > 0) =>
              /\ Len(list_reply.ports) = Len(avail.ports)
              /\ \A k \in 1 .. Len(avail.ports) :
                    list_reply.ports[k] = avail.ports[k].port_name

(* The enumeration succeeded with no port and the reply is the sentinel. *)
C14_Witness ==
    /\ Replied
    /\ avail = AvailOk(<<>>)
    /\ list_reply.ports = <<"No ports available">>

----------------------------------------------------------------------------
(* Properties of the scan *)

(* C20: encode is total. For every input the call ends with a text result,
   no step of it can fail (until it is done a next step exists), each step of
   the loop moves the window start forward by 1 or by 4, so no start is
   visited twice, and the output never has more characters than the input. *)
C20_Total ==
    /\ <>(cpc = "done")
    /\ [](cpc # "done" => ENABLED NextScan)
    /\ [](Len(parsed_s) <= Len(s))
    /\ [][(cpc = "loop" /\ cpc' = "loop") =>
            (win + 3 <= Len(s) /\ (win' = win + 1 \/ win' = win + 4))]_vars

(* The loop has ended on "0x02iii0x17ii0x03" after three steps of 4 and five
   steps of 1, with the eight characters of the test's expected result. *)
C20_Witness ==
    /\ cpc = "done"
    /\ Len(s) = 17 /\ EscapeAt(s, 1) /\ EscapeAt(s, 8) /\ EscapeAt(s, 14)
    /\ win = 18
    /\ parsed_s = <<2, 105, 105, 105, 23, 105, 105, 3>>

====
